---- MODULE Spec2Model ----
(***************************************************************************)
(* A model of the notion-stuff repository:                                 *)
(*   libs/blocks-markdown-parser  NotionBlocksMarkdownParser               *)
(*   libs/scully-plugin-notion    notionDomRouterPlugin, notionDomPlugin   *)
(*                                                                         *)
(* A JavaScript string is a sequence of tokens.  Every character that the  *)
(* replacement patterns of String.prototype.replace look at (dollar, ampersand, backtick, apostrophe)   *)
(* is a token of its own; the toggle placeholder is one token; the other   *)
(* literal fragments of the templates are tokens that never start with one *)
(* of those characters.                                                    *)
(***************************************************************************)
EXTENDS Integers, Sequences, FiniteSets, TLC

VARIABLES
    \* ---- NotionBlocksMarkdownParser.parse: one top-level call
    blocks,          \* the Blocks argument of the top-level call
    parserOptions,   \* this.parserOptions of the instance
    stack,           \* the chain of suspended parse() invocations, innermost last
    calls,           \* block ids whose getImageSize lookup was issued, in order
    outstanding,     \* block ids whose lookup promise is still pending
    answers,         \* what each issued lookup settled with (block id -> outcome)
    status,          \* "idle" | "running" | "returned" | "failed"
    result,          \* the string the top-level promise resolved with
    error,           \* the message the top-level promise rejected with
    \* ---- annotate
    annotations,     \* the Annotations argument, as Object.entries lists it
    content,         \* the originalContent argument
    annotated,       \* the returned string
    \* ---- getInstance
    instance,        \* NotionBlocksMarkdownParser.instance
    created,         \* how many instances the constructor has built
    requests,        \* the options argument of every getInstance call, in order
    returned,        \* the instance every getInstance call returned, in order
    parseOptions,    \* the parserOptions the latest parse call read
    \* ---- scully plugin
    notion,          \* whether the module-level Notion client is instantiated
    apiCalls,        \* calls made to the Notion API, in order
    routerCall,      \* the notionDomRouterPlugin invocation and how it settled
    domCall,         \* the notionDomPlugin invocation in progress
    domResult        \* how every notionDomPlugin promise settled, in order

renderVars == <<blocks, parserOptions, stack, calls, outstanding, answers,
                status, result, error>>
annotateVars == <<annotations, content, annotated>>
instanceVars == <<instance, created, requests, returned, parseOptions>>
pluginVars == <<notion, apiCalls, routerCall, domCall, domResult>>
vars == <<renderVars, annotateVars, instanceVars, pluginVars>>
notRenderVars == <<annotateVars, instanceVars, pluginVars>>
notAnnotateVars == <<renderVars, instanceVars, pluginVars>>
notInstanceVars == <<renderVars, annotateVars, pluginVars>>
notPluginVars == <<renderVars, annotateVars, instanceVars>>

(***************************************************************************)
(* Strings                                                                 *)
(***************************************************************************)
EOL_MD == <<"\n">>

PLACEHOLDER == "{{childBlock}}"

\* The two quote characters of the templates, each a token of its own (the
\* grave accent is written by name: the character cannot stand in a string).
Backtick == "BACKTICK"
Apostrophe == "'"

RECURSIVE Repeat(_, _)
Repeat(s, n) == IF n <= 0 THEN <<>> ELSE s \o Repeat(s, n - 1)

RECURSIVE Flatten(_)
Flatten(ss) == IF ss = <<>> THEN <<>> ELSE Head(ss) \o Flatten(Tail(ss))

\* s.split("\n").join(sep)
RECURSIVE SplitJoin(_, _)
SplitJoin(s, sep) ==
    IF s = <<>> THEN <<>>
    ELSE (IF Head(s) = "\n" THEN sep ELSE <<Head(s)>>) \o SplitJoin(Tail(s), sep)

\* The index of the first occurrence of token t in s, 0 when there is none.
IndexOf(s, t) ==
    IF \E i \in 1..Len(s) : s[i] = t
    THEN CHOOSE i \in 1..Len(s) : s[i] = t /\ \A j \in 1..(i - 1) : s[j] # t
    ELSE 0

\* GetSubstitution of String.prototype.replace with a string pattern (no
\* capture groups): $$ is $, $& the match, dollar-backtick the text before the match,
\* dollar-apostrophe the text after it; any other $ stands for itself.
RECURSIVE Substitution(_, _, _, _)
Substitution(repl, before, matched, after) ==
    IF repl = <<>> THEN <<>>
    ELSE IF Head(repl) = "$" /\ Len(repl) >= 2 /\ repl[2] \in {"$", "&", Backtick, Apostrophe}
         THEN (CASE repl[2] = "$" -> <<"$">>
                 [] repl[2] = "&" -> matched
                 [] repl[2] = Backtick -> before
                 [] repl[2] = Apostrophe -> after)
              \o Substitution(Tail(Tail(repl)), before, matched, after)
         ELSE <<Head(repl)>> \o Substitution(Tail(repl), before, matched, after)

\* str.replace(pattern, repl) for a string pattern: the first occurrence only.
Replace(str, pattern, repl) ==
    LET i == IndexOf(str, pattern) IN
    IF i = 0 THEN str
    ELSE LET before == SubSeq(str, 1, i - 1)
             after == SubSeq(str, i + 1, Len(str))
         IN before \o Substitution(repl, before, <<pattern>>, after) \o after

(***************************************************************************)
(* Annotations and rich text                                               *)
(***************************************************************************)
Modifiers == {"bold", "italic", "strikethrough", "underline", "code", "color"}

\* isOnOrColor as a condition: a flag is a boolean, a color is a string,
\* which the empty string alone makes falsy.
Truthy(entry) == IF entry[1] = "color" THEN entry[2] # "" ELSE entry[2]

\* An annotateModifier whose color case does not look for 'default'.
AnnotateModifierColorAlways(modifier, originalContent, color) ==
    CASE modifier = "bold" -> <<"**">> \o originalContent \o <<"**">>
      [] modifier = "italic" -> <<"_">> \o originalContent \o <<"_">>
      [] modifier = "strikethrough" -> <<"~~">> \o originalContent \o <<"~~">>
      [] modifier = "underline" -> <<"<u>">> \o originalContent \o <<"</u>">>
      [] modifier = "code" -> <<Backtick>> \o originalContent \o <<Backtick>>
      [] modifier = "color" ->
            <<"<span notion-color=", Apostrophe, color, Apostrophe, ">">> \o originalContent
                \o <<"</span>">>

annotateModifier(modifier, originalContent, color) ==
    CASE modifier = "bold" -> <<"**">> \o originalContent \o <<"**">>
      [] modifier = "italic" -> <<"_">> \o originalContent \o <<"_">>
      [] modifier = "strikethrough" -> <<"~~">> \o originalContent \o <<"~~">>
      [] modifier = "underline" -> <<"<u>">> \o originalContent \o <<"</u>">>
      [] modifier = "code" -> <<Backtick>> \o originalContent \o <<Backtick>>
      [] modifier = "color" ->
            (IF color = "default"
             THEN originalContent
             ELSE <<"<span notion-color=", Apostrophe, color, Apostrophe, ">">> \o originalContent
                      \o <<"</span>">>)

\* Object.entries(annotations).reduce(...): entries is the sequence of
\* <<modifier, value>> pairs in the order the object lists its keys.
RECURSIVE annotateFrom(_, _, _)
annotateFrom(entries, k, annotatedContent) ==
    IF k > Len(entries) THEN annotatedContent
    ELSE annotateFrom(entries, k + 1,
            IF Truthy(entries[k])
            THEN annotateModifier(entries[k][1], annotatedContent, entries[k][2])
            ELSE annotatedContent)

annotate(entries, originalContent) == annotateFrom(entries, 1, originalContent)

\* [${annotatedContent}](${text.link.url ? text.link.url : text.link}): a link
\* is [form |-> "object", url |-> u], the object holding a url, or
\* [form |-> "string", value |-> u], the url itself; [form |-> "none"] is no link.
annotateLink(link, annotatedContent) ==
    <<"[">> \o annotatedContent \o <<"](">>
        \o <<(IF link.form = "object" /\ link.url # "" THEN link.url ELSE link.value)>>
        \o <<")">>

parseText(richText) ==
    LET c == annotate(richText.annotations, richText.text)
    IN IF richText.link.form # "none" THEN annotateLink(richText.link, c) ELSE c

parseMention(richText) == annotate(richText.annotations, richText.plain_text)

parseEquation(richText) ==
    annotate(richText.annotations, <<"$">> \o richText.expression \o <<"$">>)

RECURSIVE parseRichTexts(_)
parseRichTexts(richTexts) ==
    IF richTexts = <<>> THEN <<>>
    ELSE LET richText == Head(richTexts) IN
         (CASE richText.type = "text" -> parseText(richText)
            [] richText.type = "mention" -> parseMention(richText)
            [] richText.type = "equation" -> parseEquation(richText)
            [] OTHER -> <<>>)
         \o parseRichTexts(Tail(richTexts))

(***************************************************************************)
(* Block renderers.  A block is [id, type, has_children, payload], payload *)
(* being childBlock[childBlock.type]: a record with the fields of its kind *)
(* and, when the children were fetched, a field "children".                *)
(***************************************************************************)
Has(rec, key) == key \in DOMAIN rec

parseParagraph(paragraphBlock, options) ==
    LET text == IF options.emptyParagraphToNonBreakingSpace
                   /\ Len(paragraphBlock.payload.rich_text) = 0
                THEN <<"&nbsp;">>
                ELSE parseRichTexts(paragraphBlock.payload.rich_text)
    IN EOL_MD \o text \o EOL_MD

\* String.prototype.toLowerCase on the language tags of the model.
toLowerCase(language) ==
    CASE language = "JavaScript" -> "javascript"
      [] OTHER -> language

parseCodeBlock(codeBlock) ==
    <<Backtick, Backtick, Backtick, toLowerCase(codeBlock.payload.language), "\n">>
        \o codeBlock.payload.rich_text[1].text
        \o <<"\n", Backtick, Backtick, Backtick>> \o EOL_MD

parseQuoteBlock(quoteBlock) ==
    EOL_MD \o <<">", " ">>
        \o SplitJoin(parseRichTexts(quoteBlock.payload.rich_text), <<"\n", ">", " ">>)
        \o EOL_MD

getCalloutIcon(icon) ==
    CASE icon.type = "emoji" ->
            <<"<span notion-callout-emoji>", icon.emoji, "</span>">>
      [] icon.type = "external" ->
            <<"<img notion-callout-external src=", Apostrophe, icon.url, Apostrophe,
              " alt=", Apostrophe, "notion-callout-external-link", Apostrophe, "/>">>
      [] icon.type = "file" -> <<"notion-callout-file">>

parseCalloutBlock(calloutBlock) ==
    LET callout == <<"<div notion-callout>", "\n", "  ", "{{icon}}", "\n",
                     "  <span notion-callout-text>", "\n", "    ">>
                   \o parseRichTexts(calloutBlock.payload.rich_text)
                   \o <<"\n", "  </span>", "\n", "</div>">>
    IN EOL_MD \o Replace(callout, "{{icon}}", getCalloutIcon(calloutBlock.payload.icon))
           \o EOL_MD

parseHeading(headingBlock, headingLevel) ==
    EOL_MD \o Repeat(<<"#">>, headingLevel) \o <<" ">>
        \o parseRichTexts(headingBlock.payload.rich_text) \o EOL_MD

parseBulletedListItems(bulletedListItemBlock) ==
    <<"*", " ">>
        \o SplitJoin(parseRichTexts(bulletedListItemBlock.payload.rich_text),
                     <<"\n", "    ">>)
        \o EOL_MD

parseNumberedListItems(numberedListItemBlock) ==
    <<"1.", " ">>
        \o SplitJoin(parseRichTexts(numberedListItemBlock.payload.rich_text),
                     <<"\n", "    ">>)
        \o EOL_MD

parseTodoBlock(todoBlock) ==
    <<"- [", (IF todoBlock.payload.checked THEN "x" ELSE " "), "] ">>
        \o parseRichTexts(todoBlock.payload.rich_text) \o EOL_MD

parseToggleBlock(toggleBlock) ==
    <<"<details><summary>">> \o parseRichTexts(toggleBlock.payload.rich_text)
        \o <<"</summary>", PLACEHOLDER, "</details>">>

\* The url of either form of file; the caption's rich text when the file has a
\* caption field (an empty array is truthy), else the url.
parseFile(file) ==
    LET url == CASE file.type = "external" -> file.external.url
                 [] file.type = "file" -> file.file.url
                 [] OTHER -> ""
    IN [url |-> url,
        caption |-> IF Has(file, "caption") THEN parseRichTexts(file.caption)
                    ELSE <<url>>]

ImageFigure(f) ==
    <<"\n", "<figure notion-figure>", "\n", "  <img src=", Apostrophe, f.url,
      Apostrophe, " alt=", Apostrophe>> \o f.caption
        \o <<Apostrophe, ">", "\n", "  <figcaption notion-figcaption>">> \o f.caption
        \o <<"</figcaption>", "\n", "</figure>", "\n">> \o EOL_MD

ImagePlain(f) == <<"![">> \o f.caption \o <<"](", f.url, ")">> \o EOL_MD

\* A check that asks only for the fields to be there.
SizeFoundZeroAllowed(size) == Has(size, "width") /\ Has(size, "height")

\* !result.width || !result.height: a missing field and 0 are both falsy.
SizeFound(size) ==
    /\ Has(size, "width") /\ size.width # 0
    /\ Has(size, "height") /\ size.height # 0

ImageSized(f, size) ==
    <<"![">> \o f.caption \o <<"|", ToString(size.width), "x", ToString(size.height)>>
        \o <<"](", f.url, ")">> \o EOL_MD

parseAudioBlock(audioBlock) ==
    LET f == parseFile(audioBlock.payload)
    IN <<"![">> \o f.caption \o <<"](", f.url, ")">>

\* The video url resolver: <<processed, iframeOrUrl>>.
processExternalVideoUrl(url) ==
    IF url = "youtube" THEN <<TRUE, <<"<iframe youtube>">>>> ELSE <<FALSE, <<url>>>>

ToBeSupported(f) ==
    <<"To be supported: ", f.url, " with ">> \o f.caption \o EOL_MD

parseVideoBlock(videoBlock) ==
    LET f == parseFile(videoBlock.payload)
        r == processExternalVideoUrl(f.url)
    IN IF r[1] THEN EOL_MD \o r[2] \o EOL_MD ELSE ToBeSupported(f)

parseFileBlock(fileBlock) == ToBeSupported(parseFile(fileBlock.payload))

parsePdfBlock(pdfBlock) ==
    LET f == parseFile(pdfBlock.payload)
    IN <<"\n", "<figure>", "\n", "  <object data=", Apostrophe, f.url, Apostrophe,
         " type=", Apostrophe, "application/pdf", Apostrophe, "></object>", "\n",
         "  <figcaption>">> \o f.caption
           \o <<"</figcaption>", "\n", "</figure>", "\n">> \o EOL_MD

parseEmbedBlock(embedBlock) ==
    LET embedded == <<"<iframe src=", Apostrophe, embedBlock.payload.url, Apostrophe,
                      "></iframe>">>
    IN IF Has(embedBlock.payload, "caption")
       THEN <<"\n", "<figure>", "\n", "  ">> \o embedded
                \o <<"\n", "  <figcaption>">>
                \o parseRichTexts(embedBlock.payload.caption)
                \o <<"</figcaption>", "\n", "</figure>">> \o EOL_MD
       ELSE embedded \o EOL_MD

(***************************************************************************)
(* Options                                                                 *)
(***************************************************************************)
\* The constructor: the defaults, overridden by the options given.  Options
\* are a function from the names given to their values.
Constructor(options) ==
    options @@ [imageAsFigure |-> TRUE, emptyParagraphToNonBreakingSpace |-> FALSE]

\* A field of parserOptions read as a condition: undefined is falsy.
Enabled(options, name) == Has(options, name) /\ options[name] # FALSE

\* parseImageBlock without the check of line 278.
ImageRouteUnchecked(options) ==
    IF options.imageAsFigure THEN "figure"
    ELSE IF Enabled(options, "addImageSizeToAltText")
         THEN (IF Has(options, "getImageSize") THEN "lookup" ELSE "plain")
         ELSE "plain"

\* What parseImageBlock does with an image, by parserOptions alone.
ImageRoute(options) ==
    IF options.imageAsFigure THEN "figure"
    ELSE IF Enabled(options, "addImageSizeToAltText")
         THEN (IF ~Has(options, "getImageSize") THEN "config_error" ELSE "lookup")
         ELSE "plain"

(***************************************************************************)
(* parse: the walk of the block tree                                       *)
(***************************************************************************)
\* The types parse has a rule for, childBlock.type.startsWith('heading_') aside.
RuledTypes ==
    {"unsupported", "paragraph", "code", "quote", "callout", "bulleted_list_item",
     "numbered_list_item", "to_do", "toggle", "image", "embed", "audio", "video",
     "file", "pdf", "divider"}

\* Number(childBlock.type.split('_')[1]) for the types that start with
\* 'heading_'; every other type of the model does not start with it.
HeadingLevels ==
    [heading_1 |-> 1, heading_2 |-> 2, heading_3 |-> 3, heading_4 |-> 4]

startsWithHeading(type) == type \in DOMAIN HeadingLevels

\* A fall-through that would keep the children's text.
NoRuleKeepsChildren(childBlockString) == childBlockString

\* Lines 87-166 when no condition holds: markdown is left as it is.
NoRule(childBlockString) == <<>>

\* The text one pass of the loop body adds to markdown for childBlock;
\* imageText is what parseImageBlock resolved with (read for an image only).
BlockText(childBlock, depth, childBlockString, options, imageText) ==
    LET prefix == Repeat(<<" ">>, depth)
        type == childBlock.type
    IN CASE type = "unsupported" ->
              prefix \o <<"NotionAPI Unsupported">> \o EOL_MD \o EOL_MD
                  \o childBlockString
         [] type = "paragraph" ->
              prefix \o parseParagraph(childBlock, options) \o childBlockString
         [] type = "code" -> prefix \o parseCodeBlock(childBlock) \o childBlockString
         [] type = "quote" -> prefix \o parseQuoteBlock(childBlock) \o childBlockString
         [] type = "callout" ->
              prefix \o parseCalloutBlock(childBlock) \o childBlockString
         [] startsWithHeading(type) ->
              prefix \o parseHeading(childBlock, HeadingLevels[type])
                  \o childBlockString
         [] type = "bulleted_list_item" ->
              prefix \o parseBulletedListItems(childBlock) \o childBlockString
         [] type = "numbered_list_item" ->
              prefix \o parseNumberedListItems(childBlock) \o childBlockString
         [] type = "to_do" -> prefix \o parseTodoBlock(childBlock) \o childBlockString
         [] type = "toggle" ->
              prefix \o Replace(parseToggleBlock(childBlock), PLACEHOLDER,
                                childBlockString)
         [] type = "image" -> prefix \o imageText \o childBlockString
         [] type = "embed" -> prefix \o parseEmbedBlock(childBlock) \o childBlockString
         [] type = "audio" -> prefix \o parseAudioBlock(childBlock) \o childBlockString
         [] type = "video" -> prefix \o parseVideoBlock(childBlock) \o childBlockString
         [] type = "file" -> prefix \o parseFileBlock(childBlock) \o childBlockString
         [] type = "pdf" -> prefix \o parsePdfBlock(childBlock) \o childBlockString
         [] type = "divider" ->
              prefix \o EOL_MD \o <<"---">> \o EOL_MD \o childBlockString
         [] OTHER -> NoRule(childBlockString)

\* childBlock.has_children && childBlock[childBlock.type].children
childrenFetched(childBlock) ==
    childBlock.has_children /\ Has(childBlock.payload, "children")

\* One invocation of parse: its arguments, its position in the loop (i, and
\* pc: "children" before line 83, "dispatch" before line 87, "await" at the
\* await of line 141), and its locals.
\* (a loop that would walk the blocks last to first)
NewFrameReversed(bs, depth) ==
    [blocks |-> [k \in 1..Len(bs) |-> bs[Len(bs) + 1 - k]], depth |-> depth, i |-> 1,
     pc |-> "children", markdown |-> <<>>, childBlockString |-> <<>>]

\* Lines 76-79: markdown is empty, the loop starts at the first block.
NewFrame(bs, depth) ==
    [blocks |-> bs, depth |-> depth, i |-> 1, pc |-> "children",
     markdown |-> <<>>, childBlockString |-> <<>>]

\* A return with two line breaks.
ReturnValueTwoBreaks(markdown) == markdown \o EOL_MD \o EOL_MD

\* return markdown.concat(EOL_MD)
ReturnValue(markdown) == markdown \o EOL_MD

\* The loop body's end for one block: its text is added, the loop moves on.
Appended(frame, text) ==
    [frame EXCEPT !.markdown = @ \o text, !.i = @ + 1, !.pc = "children",
                  !.childBlockString = <<>>]

\* A call of getImageSize without the await: the loop goes on.
LookupIssuedNoAwait(frame) ==
    Appended(frame, <<"[object Promise]">> \o frame.childBlockString)

\* await this.parserOptions.getImageSize(url): the invocation waits.
LookupIssued(frame) == [frame EXCEPT !.pc = "await"]

Top == stack[Len(stack)]
Current == Top.blocks[Top.i]
WithTop(frame) == [stack EXCEPT ![Len(stack)] = frame]

Running == status = "running" /\ stack # <<>>
AtBlock(pc) == Running /\ Top.pc = pc /\ Top.i <= Len(Top.blocks)

\* A throw inside parse rejects its promise, and with it the promise of every
\* caller awaiting it, up to the top-level call.
Fails(message) ==
    /\ status' = "failed"
    /\ error' = message
    /\ stack' = <<>>
    /\ result' = <<>>

\* The top-level call parse(blocks).
ParseCall ==
    /\ status = "idle"
    /\ status' = "running"
    /\ stack' = <<NewFrame(blocks, 0)>>
    /\ UNCHANGED <<blocks, parserOptions, calls, outstanding, answers, result, error>>
    /\ UNCHANGED notRenderVars

\* Lines 83-85, the children are there: await this.parse(children, depth + 2).
ParseChildren ==
    /\ AtBlock("children")
    /\ childrenFetched(Current)
    /\ stack' = Append(stack, NewFrame(Current.payload.children, Top.depth + 2))
    /\ UNCHANGED <<blocks, parserOptions, calls, outstanding, answers, status,
                   result, error>>
    /\ UNCHANGED notRenderVars

\* Lines 82-85, no children to parse: childBlockString stays ''.
NoChildren ==
    /\ AtBlock("children")
    /\ ~childrenFetched(Current)
    /\ stack' = WithTop([Top EXCEPT !.pc = "dispatch", !.childBlockString = <<>>])
    /\ UNCHANGED <<blocks, parserOptions, calls, outstanding, answers, status,
                   result, error>>
    /\ UNCHANGED notRenderVars

\* Line 169: the invocation returns; its caller (line 84) goes on with the
\* text as childBlockString, or the top-level promise resolves with it.
Return ==
    /\ Running
    /\ Top.pc = "children"
    /\ Top.i > Len(Top.blocks)
    /\ LET text == ReturnValue(Top.markdown) IN
       IF Len(stack) = 1
       THEN /\ stack' = <<>>
            /\ status' = "returned"
            /\ result' = text
       ELSE /\ stack' = [SubSeq(stack, 1, Len(stack) - 1) EXCEPT
                            ![Len(stack) - 1].pc = "dispatch",
                            ![Len(stack) - 1].childBlockString = text]
            /\ UNCHANGED <<status, result>>
    /\ UNCHANGED <<blocks, parserOptions, calls, outstanding, answers, error>>
    /\ UNCHANGED notRenderVars

\* Lines 87-166 for a block that needs no lookup: every rule but the image's,
\* and the image's when parseImageBlock returns without awaiting a lookup.
Dispatch ==
    /\ AtBlock("dispatch")
    /\ Current.type = "image" => ImageRoute(parserOptions) \in {"figure", "plain"}
    /\ LET f == parseFile(Current.payload)
           imageText == IF Current.type # "image" THEN <<>>
                        ELSE IF ImageRoute(parserOptions) = "figure"
                             THEN ImageFigure(f) ELSE ImagePlain(f)
       IN stack' = WithTop(Appended(Top,
              BlockText(Current, Top.depth, Top.childBlockString, parserOptions,
                        imageText)))
    /\ UNCHANGED <<blocks, parserOptions, calls, outstanding, answers, status,
                   result, error>>
    /\ UNCHANGED notRenderVars

\* Lines 277-280: addImageSizeToAltText without getImageSize.
ConfigurationError ==
    /\ AtBlock("dispatch")
    /\ Current.type = "image"
    /\ ImageRoute(parserOptions) = "config_error"
    /\ Fails("getImageSize is required")
    /\ UNCHANGED <<blocks, parserOptions, calls, outstanding, answers>>
    /\ UNCHANGED notRenderVars

\* Line 282: getImageSize(url) is called and awaited.
IssueLookup ==
    /\ AtBlock("dispatch")
    /\ Current.type = "image"
    /\ ImageRoute(parserOptions) = "lookup"
    /\ calls' = Append(calls, Current.id)
    /\ outstanding' = outstanding \cup {Current.id}
    /\ stack' = WithTop(LookupIssued(Top))
    /\ UNCHANGED <<blocks, parserOptions, answers, status, result, error>>
    /\ UNCHANGED notRenderVars

\* What a lookup can resolve with: sizes with a zero or a missing field too.
Sizes ==
    {[width |-> 10, height |-> 20], [width |-> 0, height |-> 20],
     [width |-> 10, height |-> 0], [height |-> 20], [width |-> 10]}

\* Lines 282-288: the lookup resolves; the image's text, or the throw of 285.
LookupResolves ==
    /\ AtBlock("await")
    /\ Current.id \in outstanding
    /\ \E size \in Sizes :
        /\ outstanding' = outstanding \ {Current.id}
        /\ answers' = (Current.id :> [kind |-> "resolved", size |-> size]) @@ answers
        /\ IF SizeFound(size)
           THEN /\ stack' = WithTop(Appended(Top,
                      BlockText(Current, Top.depth, Top.childBlockString,
                                parserOptions,
                                ImageSized(parseFile(Current.payload), size))))
                /\ UNCHANGED <<status, result, error>>
           ELSE Fails("Could not find width/height for image")
    /\ UNCHANGED <<blocks, parserOptions, calls>>
    /\ UNCHANGED notRenderVars

\* Line 282: the lookup rejects; the rejection is thrown at the await.
LookupRejects ==
    /\ AtBlock("await")
    /\ Current.id \in outstanding
    /\ outstanding' = outstanding \ {Current.id}
    /\ answers' = (Current.id :> [kind |-> "rejected"]) @@ answers
    /\ Fails("lookup rejected")
    /\ UNCHANGED <<blocks, parserOptions, calls>>
    /\ UNCHANGED notRenderVars

RenderNext ==
    \/ ParseCall
    \/ ParseChildren
    \/ NoChildren
    \/ Dispatch
    \/ ConfigurationError
    \/ IssueLookup
    \/ LookupResolves
    \/ LookupRejects
    \/ Return

(***************************************************************************)
(* The inputs: block trees and options                                     *)
(***************************************************************************)
\* The most blocks in a tree of paragraphs, images and column lists.
MaxBlocks == 3

\* Annotations as the Notion API lists them, nothing set.
PlainAnnotations ==
    <<<<"bold", FALSE>>, <<"italic", FALSE>>, <<"strikethrough", FALSE>>,
      <<"underline", FALSE>>, <<"code", FALSE>>, <<"color", "default">>>>

Text(tokens) ==
    [type |-> "text", text |-> tokens, link |-> [form |-> "none"],
     annotations |-> PlainAnnotations]

Equation(tokens) ==
    [type |-> "equation", expression |-> tokens, annotations |-> PlainAnnotations]

External(url) == [type |-> "external", external |-> [url |-> url]]

Hosted(url) == [type |-> "file", file |-> [url |-> url]]

\* A block without its id and children: type, payload, and whether it says
\* has_children without its children having been fetched.
Proto(type, payload) == [type |-> type, payload |-> payload, unfetched |-> FALSE]

Paragraph(richTexts) == Proto("paragraph", [rich_text |-> richTexts])

\* The blocks the lookup order, the failures and the skipping are about.
CoreProtos ==
    {Paragraph(<<Text(<<"a">>)>>),
     Proto("image", External("u")),
     Proto("column_list", [object |-> "block"])}

\* One block of every kind parse has a rule for, and more.
KindProtos ==
    {Paragraph(<<Text(<<"a">>)>>),
     Paragraph(<<>>),
     [Paragraph(<<Text(<<"a">>)>>) EXCEPT !.unfetched = TRUE],
     Proto("unsupported", [object |-> "block"]),
     Proto("code", [language |-> "JavaScript", rich_text |-> <<Text(<<"let x = 1;">>)>>]),
     Proto("quote", [rich_text |-> <<Text(<<"line1", "\n", "line2">>)>>]),
     Proto("callout", [rich_text |-> <<Text(<<"a">>)>>,
                       icon |-> [type |-> "emoji", emoji |-> "e"]]),
     Proto("callout", [rich_text |-> <<Text(<<"a">>)>>,
                       icon |-> [type |-> "external", url |-> "u"]]),
     Proto("callout", [rich_text |-> <<Text(<<"a">>)>>, icon |-> [type |-> "file"]]),
     Proto("heading_1", [rich_text |-> <<Text(<<"h">>)>>]),
     Proto("heading_3", [rich_text |-> <<Text(<<"h">>)>>]),
     Proto("heading_4", [rich_text |-> <<Text(<<"h">>)>>]),
     Proto("bulleted_list_item", [rich_text |-> <<Text(<<"a", "\n", "b">>)>>]),
     Proto("numbered_list_item", [rich_text |-> <<Text(<<"a">>)>>]),
     Proto("to_do", [checked |-> TRUE, rich_text |-> <<Text(<<"a">>)>>]),
     Proto("to_do", [checked |-> FALSE, rich_text |-> <<Text(<<"a">>)>>]),
     Proto("toggle", [rich_text |-> <<Text(<<"s">>)>>]),
     Proto("image", External("u") @@ [caption |-> <<Text(<<"cap">>)>>]),
     Proto("image", Hosted("u")),
     Proto("embed", [url |-> "u"]),
     Proto("embed", [url |-> "u", caption |-> <<Text(<<"cap">>)>>]),
     Proto("audio", External("u")),
     Proto("video", External("youtube")),
     Proto("video", External("u")),
     Proto("file", Hosted("u")),
     Proto("pdf", External("u") @@ [caption |-> <<>>]),
     Proto("divider", [object |-> "block"]),
     Proto("column_list", [object |-> "block"])}

\* What a toggle's summary and the blocks under a toggle may hold: text that
\* the placeholder substitution reads, among others.
ToggleSummaries ==
    {<<Text(<<"s">>)>>, <<>>, <<Text(<<PLACEHOLDER>>)>>,
     <<Text(<<"s">>), Text(<<PLACEHOLDER>>)>>}

ToggleChildProtos ==
    {Paragraph(<<Text(<<"hi">>)>>),
     Paragraph(<<Equation(<<"x">>), Equation(<<"y">>)>>),
     Paragraph(<<Text(<<"$", "&">>)>>),
     Paragraph(<<Text(<<"$">>)>>),
     Paragraph(<<Text(<<PLACEHOLDER>>)>>),
     Proto("image", External("u") @@ [caption |-> <<Equation(<<"x">>)>>]),
     Proto("toggle", [rich_text |-> <<Text(<<"t">>)>>])}

ToggleProtos == {Proto("toggle", [rich_text |-> summary]) : summary \in ToggleSummaries}

\* The block of a proto, with its id and its (fetched) children.
Block(id, proto, children) ==
    [id |-> id, type |-> proto.type,
     has_children |-> (children # <<>> \/ proto.unfetched),
     payload |-> IF children # <<>> THEN ("children" :> children) @@ proto.payload
                 ELSE proto.payload]

\* The block sequences of exactly n blocks in all, children counted, whose
\* ids are first, first + 1, ... in document order; roots, and below them
\* inner, are the protos a block at the top, and below it, is built from.
RECURSIVE Forests(_, _, _, _)
Forests(first, n, roots, inner) ==
    IF n = 0 THEN {<<>>}
    ELSE UNION {
           UNION {
             {<<Block(first, proto, children)>> \o rest :
                 children \in Forests(first + 1, m - 1, inner, inner),
                 rest \in Forests(first + m, n - m, roots, inner)}
             : proto \in roots}
           : m \in 1..n}

CoreTrees == UNION {Forests(1, n, CoreProtos, CoreProtos) : n \in 0..MaxBlocks}

KindTrees == UNION {Forests(1, n, KindProtos, KindProtos) : n \in 0..2}

ToggleTrees == UNION {Forests(1, n, ToggleProtos, ToggleChildProtos) : n \in 1..3}

\* The options of the calls: every way to ask for image sizes, and the rest.
NoOptions == <<>>

ImageOptions ==
    {a @@ b @@ c :
        a \in {NoOptions, [imageAsFigure |-> FALSE]},
        b \in {NoOptions, [addImageSizeToAltText |-> TRUE]},
        c \in {NoOptions, [getImageSize |-> "getImageSize"]}}

KindOptions ==
    {NoOptions,
     [emptyParagraphToNonBreakingSpace |-> TRUE],
     [imageAsFigure |-> FALSE],
     [imageAsFigure |-> FALSE, addImageSizeToAltText |-> TRUE,
      getImageSize |-> "getImageSize"]}

ToggleOptions ==
    {NoOptions,
     [imageAsFigure |-> FALSE, addImageSizeToAltText |-> TRUE,
      getImageSize |-> "getImageSize"]}

RenderInputs ==
    (CoreTrees \X ImageOptions) \cup (KindTrees \X KindOptions)
        \cup (ToggleTrees \X ToggleOptions)

\* The values of the variables a specification does not use.
Unused == <<>>

InitRender ==
    /\ \E input \in RenderInputs :
        /\ blocks = input[1]
        /\ parserOptions = Constructor(input[2])
    /\ stack = <<>>
    /\ calls = <<>>
    /\ outstanding = {}
    /\ answers = <<>>
    /\ status = "idle"
    /\ result = <<>>
    /\ error = ""
    /\ annotations = Unused /\ content = Unused /\ annotated = Unused
    /\ instance = Unused /\ created = Unused /\ requests = Unused
    /\ returned = Unused /\ parseOptions = Unused
    /\ notion = Unused /\ apiCalls = Unused /\ domCall = Unused
    /\ domResult = Unused /\ routerCall = Unused

SpecRender == InitRender /\ [][RenderNext]_vars

(***************************************************************************)
(* parse as a function of the tree: what a call that returns, returns      *)
(***************************************************************************)
\* The children parse recurses into.
Children(block) == IF childrenFetched(block) THEN block.payload.children ELSE <<>>

\* What parseImageBlock resolves with, given what the lookups answered.
ImageText(imageBlock, options, answered) ==
    LET f == parseFile(imageBlock.payload)
        route == ImageRoute(options)
    IN CASE route = "figure" -> ImageFigure(f)
         [] route = "plain" -> ImagePlain(f)
         [] route = "lookup" /\ imageBlock.id \in DOMAIN answered ->
              IF answered[imageBlock.id].kind = "resolved"
              THEN ImageSized(f, answered[imageBlock.id].size) ELSE <<>>
         [] OTHER -> <<>>

\* The text of a block sequence at a depth: each block's text in document
\* order, then one line break.  A block's text is its prefix, its own
\* rendering and its children's text at depth + 2; a toggle's children's text
\* stands where its placeholder stood; a block no rule matches has no text,
\* or, with unmatched = "children", its prefix and its children's text.
RECURSIVE TextOf(_, _, _, _, _)
TextOf(bs, depth, options, answered, unmatched) ==
    LET prefix == Repeat(<<" ">>, depth)
        Own(b) == BlockText(b, 0, <<>>, options,
                            IF b.type = "image" THEN ImageText(b, options, answered)
                            ELSE <<>>)
        Below(b) == IF childrenFetched(b)
                    THEN TextOf(b.payload.children, depth + 2, options, answered,
                                unmatched)
                    ELSE <<>>
        One(b) == IF b.type = "toggle"
                  THEN prefix \o Replace(parseToggleBlock(b), PLACEHOLDER, Below(b))
                  ELSE IF b.type \in RuledTypes \/ startsWithHeading(b.type)
                       THEN prefix \o Own(b) \o Below(b)
                       ELSE IF unmatched = "children" THEN prefix \o Below(b)
                            ELSE <<>>
    IN Flatten([k \in 1..Len(bs) |-> One(bs[k])]) \o <<"\n">>

\* The blocks of a tree, at every depth.
RECURSIVE AllBlocks(_)
AllBlocks(bs) ==
    IF bs = <<>> THEN {}
    ELSE {Head(bs)} \cup AllBlocks(Children(Head(bs))) \cup AllBlocks(Tail(bs))

\* The ids of the image blocks: a block before its children (document
\* order), and a block after its children.
RECURSIVE ImagesInDocumentOrder(_)
ImagesInDocumentOrder(bs) ==
    IF bs = <<>> THEN <<>>
    ELSE (IF Head(bs).type = "image" THEN <<Head(bs).id>> ELSE <<>>)
         \o ImagesInDocumentOrder(Children(Head(bs)))
         \o ImagesInDocumentOrder(Tail(bs))

RECURSIVE ImagesChildrenFirst(_)
ImagesChildrenFirst(bs) ==
    IF bs = <<>> THEN <<>>
    ELSE ImagesChildrenFirst(Children(Head(bs)))
         \o (IF Head(bs).type = "image" THEN <<Head(bs).id>> ELSE <<>>)
         \o ImagesChildrenFirst(Tail(bs))

\* The sequence bs with the block of that id removed, wherever it is.
RECURSIVE Without(_, _)
Without(bs, id) ==
    IF bs = <<>> THEN <<>>
    ELSE LET b == Head(bs) IN
         IF b.id = id THEN Without(Tail(bs), id)
         ELSE <<(IF Has(b.payload, "children")
                 THEN [b EXCEPT !.payload.children = Without(@, id)]
                 ELSE b)>> \o Without(Tail(bs), id)

IsPrefix(s, t) == Len(s) <= Len(t) /\ SubSeq(t, 1, Len(s)) = s

LookupsAsked == ImageRoute(parserOptions) = "lookup"

\* A lookup's answer that gives no size: a rejection, or a missing or zero
\* width or height.
NoSize(answer) ==
    \/ answer.kind = "rejected"
    \/ /\ answer.kind = "resolved"
       /\ \/ ~Has(answer.size, "width") \/ ~Has(answer.size, "height")
          \/ answer.size.width = 0 \/ answer.size.height = 0

(***************************************************************************)
(* The claims about parse                                                  *)
(***************************************************************************)
\* C1, as stated: the lookups are issued in document order, a block before
\* its descendants.
C1_DocumentOrder ==
    LookupsAsked => IsPrefix(calls, ImagesInDocumentOrder(blocks))

\* C1, amended: the lookups are issued children first: those of a block's
\* descendants before the block's own, those of earlier siblings and their
\* subtrees before those of later siblings; none is left out, none repeated;
\* a call that returns has issued every one, and no lookup is issued unless
\* imageAsFigure is off, addImageSizeToAltText on and getImageSize given.
\* Where no image has an image below it, that is document order.
C1_ChildrenFirst ==
    /\ IsPrefix(calls, ImagesChildrenFirst(blocks))
    /\ (\A b \in AllBlocks(blocks) :
            b.type = "image" =>
                \A c \in AllBlocks(Children(b)) : c.type # "image")
          => IsPrefix(calls, ImagesInDocumentOrder(blocks))
    /\ LookupsAsked /\ status = "returned" => calls = ImagesChildrenFirst(blocks)
    /\ ~LookupsAsked => calls = <<>>

\* An image's lookup was issued after the lookup of an image below it.
C1_Witness ==
    /\ LookupsAsked
    /\ \E i, j \in 1..Len(calls) : i < j /\ calls[i] > calls[j]

\* C2: at most one lookup is outstanding at any moment, and while one is, the
\* innermost invocation waits for it.
C2_OneOutstanding ==
    /\ Cardinality(outstanding) <= 1
    /\ outstanding # {} =>
          /\ status = "running" /\ Top.pc = "await"
          /\ outstanding = {Current.id}
          /\ calls[Len(calls)] = Current.id

\* A second lookup is outstanding, the first having resolved.
C2_Witness ==
    /\ Len(calls) >= 2
    /\ outstanding = {calls[Len(calls)]}
    /\ calls[1] \in DOMAIN answers

\* C3: once a lookup rejects or resolves without a width or a height, the
\* call has failed: no string is returned, that lookup is the last one
\* issued, and no lookup is issued twice.
C3_LookupFailureIsFatal ==
    /\ \A id \in DOMAIN answers :
          NoSize(answers[id]) =>
              /\ status = "failed"
              /\ result = <<>>
              /\ stack = <<>>
              /\ outstanding = {}
              /\ calls[Len(calls)] = id
    /\ \A i, j \in 1..Len(calls) : calls[i] = calls[j] => i = j

\* The lookup of an image below the top level failed after an earlier one
\* had given a size.
C3_Witness ==
    /\ status = "failed"
    /\ Len(calls) >= 2
    /\ NoSize(answers[calls[Len(calls)]])
    /\ \E b \in AllBlocks(blocks) :
          /\ b.id = calls[Len(calls)]
          /\ \A k \in 1..Len(blocks) : blocks[k].id # b.id

HasImage == \E b \in AllBlocks(blocks) : b.type = "image"

SizesUnobtainable ==
    /\ Enabled(parserOptions, "addImageSizeToAltText")
    /\ ~Has(parserOptions, "getImageSize")

\* C4, as stated: with addImageSizeToAltText on and no getImageSize, a tree
\* with an image never renders, whatever the other options are.
C4_AlwaysConfigurationError ==
    SizesUnobtainable /\ HasImage => status # "returned"

\* C4, amended: with imageAsFigure off, addImageSizeToAltText on and no
\* getImageSize, a tree with an image never renders: the call goes on until
\* it fails, with the configuration error, no text and no lookup.  With
\* imageAsFigure on (the default) the same tree renders: the call never fails.
C4_ConfigurationError ==
    SizesUnobtainable /\ HasImage =>
        IF parserOptions.imageAsFigure
        THEN /\ status # "failed"
             /\ status = "running" => ENABLED RenderNext
        ELSE /\ status # "returned"
             /\ status = "running" => ENABLED RenderNext
             /\ status = "failed" =>
                   /\ error = "getImageSize is required"
                   /\ result = <<>>
                   /\ calls = <<>>

\* The call failed with the configuration error at an image below the top
\* level, after a block before it had been rendered.
C4_Witness ==
    /\ status = "failed"
    /\ error = "getImageSize is required"
    /\ Len(blocks) >= 1
    /\ blocks[1].type # "image"
    /\ \E b \in AllBlocks(Children(blocks[1])) : b.type = "image"

\* C5: a toggle's output is its details/summary wrapper with the render of
\* its children at depth + 2 as the body, whatever the summary and the
\* children hold (stated of a tree that is one toggle).
C5_ToggleBody ==
    status = "returned" /\ Len(blocks) = 1 /\ blocks[1].type = "toggle" =>
        result = <<"<details><summary>">>
                    \o parseRichTexts(blocks[1].payload.rich_text)
                    \o <<"</summary>">>
                    \o (IF childrenFetched(blocks[1])
                        THEN TextOf(blocks[1].payload.children, 2, parserOptions,
                                    answers, "nothing")
                        ELSE <<>>)
                    \o <<"</details>", "\n">>

\* The blocks no rule of parse matches, and those whose type is not among
\* the kinds the specification lists (heading levels 1 to 3 are).
Unmatched == {b \in AllBlocks(blocks) :
                 b.type \notin RuledTypes /\ ~startsWithHeading(b.type)}

Unlisted == {b \in AllBlocks(blocks) :
                 b.type \notin RuledTypes \cup {"heading_1", "heading_2", "heading_3"}}

LookupsBelow(b) == {calls[k] : k \in 1..Len(calls)} \cap
                       {c.id : c \in AllBlocks(<<b>>)}

\* C7, as stated: a block of an unlisted type adds no text and causes no
\* lookup, its children included; the output is that of the sequence
\* without the block.
C7_UnlistedSkipped ==
    \A b \in Unlisted :
        /\ LookupsBelow(b) = {}
        /\ status = "returned" =>
              result = TextOf(Without(blocks, b.id), 0, parserOptions, answers,
                              "nothing")

\* C7, amended: a block whose type no rule matches (a type that starts with
\* heading_ is matched) adds no text, and its children's text is dropped: a
\* call that returns, returns the text of the sequence without the block.
\* Its children are parsed all the same: their lookups are issued.
C7_UnmatchedSkipped ==
    status = "returned" =>
        \A b \in Unmatched :
            /\ result = TextOf(Without(blocks, b.id), 0, parserOptions, answers,
                               "nothing")
            /\ LookupsAsked =>
                  \A c \in AllBlocks(Children(b)) :
                      c.type = "image" => c.id \in LookupsBelow(b)

\* A call returned for a tree in which an unmatched block has an image
\* below it, whose lookup was issued.
C7_Witness ==
    /\ status = "returned"
    /\ \E b \in Unmatched : LookupsBelow(b) # {}

\* C8, as stated: every block adds its prefix, its rendering and its
\* children's text.
C8_EveryBlockOnce ==
    status = "returned" =>
        result = TextOf(blocks, 0, parserOptions, answers, "children")

\* C8, amended: a call that returns, returns the blocks' texts in document
\* order and one line break after them; a block's text is its prefix, its
\* rendering and its children's text at depth + 2, but for a toggle, whose
\* children's text stands inside its wrapper, and for a block no rule
\* matches, which adds nothing, its children's text neither.  The empty
\* sequence gives one line break.
C8_TextInDocumentOrder ==
    status = "returned" =>
        /\ result = TextOf(blocks, 0, parserOptions, answers, "nothing")
        /\ blocks = <<>> => result = <<"\n">>

\* A call returned for two blocks at the top, the first with children.
C8_Witness ==
    /\ status = "returned"
    /\ Len(blocks) = 2
    /\ Children(blocks[1]) # <<>>
    /\ Len(result) > 4

(***************************************************************************)
(* annotate: one call                                                      *)
(***************************************************************************)
\* Every order a record can list the six annotations in.
KeyOrders ==
    {order \in [1..6 -> Modifiers] : \A i, j \in 1..6 : order[i] = order[j] => i = j}

\* The records: every order of the keys, every value of the flags, a color.
AnnotationRecords ==
    {[k \in 1..6 |-> <<order[k],
                       IF order[k] = "color" THEN color ELSE order[k] \in on>>] :
        order \in KeyOrders, on \in SUBSET (Modifiers \ {"color"}),
        color \in {"default", "red"}}

InitAnnotate ==
    /\ annotations \in AnnotationRecords
    /\ content = <<"x">>
    /\ annotated = <<>>
    /\ blocks = Unused /\ parserOptions = Unused /\ stack = Unused
    /\ calls = Unused /\ outstanding = Unused /\ answers = Unused
    /\ status = Unused /\ result = Unused /\ error = Unused
    /\ instance = Unused /\ created = Unused /\ requests = Unused
    /\ returned = Unused /\ parseOptions = Unused
    /\ notion = Unused /\ apiCalls = Unused /\ domCall = Unused
    /\ domResult = Unused /\ routerCall = Unused

\* The call annotate(annotations, content).
Annotate ==
    /\ annotated = <<>>
    /\ annotated' = annotate(annotations, content)
    /\ UNCHANGED <<annotations, content>>
    /\ UNCHANGED notAnnotateVars

AnnotateNext == Annotate

SpecAnnotate == InitAnnotate /\ [][AnnotateNext]_vars

\* The wrappers: what each annotation puts before and after the text.
Before(modifier, color) ==
    CASE modifier = "bold" -> <<"**">>
      [] modifier = "italic" -> <<"_">>
      [] modifier = "strikethrough" -> <<"~~">>
      [] modifier = "underline" -> <<"<u>">>
      [] modifier = "code" -> <<Backtick>>
      [] modifier = "color" -> <<"<span notion-color=", Apostrophe, color, Apostrophe, ">">>

After(modifier) ==
    CASE modifier = "bold" -> <<"**">>
      [] modifier = "italic" -> <<"_">>
      [] modifier = "strikethrough" -> <<"~~">>
      [] modifier = "underline" -> <<"</u>">>
      [] modifier = "code" -> <<Backtick>>
      [] modifier = "color" -> <<"</span>">>

\* The value a record gives an annotation.
ValueOf(record, modifier) ==
    record[CHOOSE k \in 1..Len(record) : record[k][1] = modifier][2]

\* text wrapped by the annotations of the record that are set, in the given
\* order: the first of the order innermost, the last outermost; a color
\* wraps only when it is not default.
Wrapped(order, record, text) ==
    LET set == SelectSeq(order,
                   LAMBDA m : IF m = "color" THEN ValueOf(record, m) # "default"
                              ELSE ValueOf(record, m))
        n == Len(set)
    IN Flatten([k \in 1..n |-> Before(set[n + 1 - k], ValueOf(record, "color"))])
           \o text \o Flatten([k \in 1..n |-> After(set[k])])

FixedOrder == <<"bold", "italic", "strikethrough", "underline", "code", "color">>

ListedOrder == [k \in 1..Len(annotations) |-> annotations[k][1]]

\* C6, as stated: the wrappers are applied in the fixed order bold, italic,
\* strikethrough, underline, code, color, whatever order the record lists
\* its keys in.
C6_FixedOrder ==
    annotated # <<>> => annotated = Wrapped(FixedOrder, annotations, content)

\* C6, amended: the wrappers are applied in the order the record lists its
\* keys in, each wrapping the result of those before it, color only when it
\* is not default; for a record that lists them as bold, italic,
\* strikethrough, underline, code, color (as the Notion API does) that is
\* the fixed order, and bold with italic on "x" gives _**x**_.
C6_ListedOrder ==
    annotated # <<>> =>
        /\ annotated = Wrapped(ListedOrder, annotations, content)
        /\ ListedOrder = FixedOrder =>
              /\ annotated = Wrapped(FixedOrder, annotations, content)
              /\ (/\ \A k \in 1..5 : annotations[k][2] = (k <= 2)
                  /\ annotations[6][2] = "default")
                    => annotated = <<"_", "**", "x", "**", "_">>

\* A record that lists italic before bold, both set, was annotated: the
\* bold wrapper is the outer one.
C6_Witness ==
    /\ annotations[1] = <<"italic", TRUE>>
    /\ annotations[2] = <<"bold", TRUE>>
    /\ ValueOf(annotations, "color") = "red"
    /\ annotated # <<>>
    /\ SubSeq(annotated, Len(annotated) - 2, Len(annotated) - 1) = <<"_", "**">>

(***************************************************************************)
(* getInstance: the calls of one process                                   *)
(***************************************************************************)
\* The most getInstance calls of a behaviour.
MaxCalls == 3

\* No instance yet: the static field is undefined.
NoInstance == [id |-> 0]

\* The options a caller may pass: none, or any of these fields.
InstanceOptions ==
    {a @@ b @@ c :
        a \in {NoOptions, [imageAsFigure |-> TRUE], [imageAsFigure |-> FALSE]},
        b \in {NoOptions, [emptyParagraphToNonBreakingSpace |-> TRUE],
               [emptyParagraphToNonBreakingSpace |-> FALSE]},
        c \in {NoOptions, [addImageSizeToAltText |-> TRUE]}}

InitInstance ==
    /\ instance = NoInstance
    /\ created = 0
    /\ requests = <<>>
    /\ returned = <<>>
    /\ parseOptions = <<>>
    /\ blocks = Unused /\ parserOptions = Unused /\ stack = Unused
    /\ calls = Unused /\ outstanding = Unused /\ answers = Unused
    /\ status = Unused /\ result = Unused /\ error = Unused
    /\ annotations = Unused /\ content = Unused /\ annotated = Unused
    /\ notion = Unused /\ apiCalls = Unused /\ domCall = Unused
    /\ domResult = Unused /\ routerCall = Unused

\* A getInstance that builds an instance at every call.
InstanceAlwaysMissing == TRUE

\* if (!this.instance)
InstanceMissing == instance = NoInstance

\* getInstance(options): the constructor runs when there is no instance.
GetInstance ==
    /\ Len(requests) < MaxCalls
    /\ \E options \in InstanceOptions :
        /\ requests' = Append(requests, options)
        /\ IF InstanceMissing
           THEN /\ instance' = [id |-> created + 1,
                                parserOptions |-> Constructor(options)]
                /\ created' = created + 1
           ELSE UNCHANGED <<instance, created>>
        /\ returned' = Append(returned, instance')
    /\ UNCHANGED parseOptions
    /\ UNCHANGED notInstanceVars

\* parse on the instance the latest call returned reads its parserOptions.
ParseReads ==
    /\ returned # <<>>
    /\ parseOptions' = returned[Len(returned)].parserOptions
    /\ UNCHANGED <<instance, created, requests, returned>>
    /\ UNCHANGED notInstanceVars

InstanceNext ==
    \/ GetInstance
    \/ ParseReads

SpecInstance == InitInstance /\ [][InstanceNext]_vars

\* The value of an option after the merge over the defaults.
Merged(options, name) ==
    IF Has(options, name) THEN options[name]
    ELSE name = "imageAsFigure"

\* C9: every getInstance call returns the one instance, built by the first
\* call; its options are the first call's, the defaults where that call gave
\* none; the options of later calls change nothing parse reads.
C9_OneInstance ==
    /\ created <= 1
    /\ \A k \in 1..Len(returned) :
          /\ returned[k] = returned[1]
          /\ returned[k] = instance
          /\ returned[k].id = 1
          /\ \A name \in {"imageAsFigure", "emptyParagraphToNonBreakingSpace",
                          "addImageSizeToAltText"} :
                Merged(requests[1], name) = Enabled(returned[k].parserOptions, name)
          /\ ~Has(returned[k].parserOptions, "getImageSize")
    /\ parseOptions # <<>> => parseOptions = returned[1].parserOptions

\* A later call passed other options than the first, and parse then read
\* a field the two calls differ on.
C9_Witness ==
    /\ Len(requests) >= 2
    /\ requests[1] = NoOptions
    /\ requests[2] = [imageAsFigure |-> FALSE]
    /\ parseOptions # <<>>
    /\ parseOptions.imageAsFigure

(***************************************************************************)
(* scully-plugin-notion: notionDomRouterPlugin and notionDomPlugin         *)
(***************************************************************************)
\* The most notionDomPlugin invocations of a behaviour.
MaxDomCalls == 2

\* The most notionDomRouterPlugin invocations of a behaviour.
MaxRouterCalls == 1

\* route is undefined.
NoRoute == [present |-> FALSE]

HandledRoute(data) == [present |-> TRUE, data |-> data]

\* The routes the plugin is called with: none, one without data, one whose
\* data has no id, one with an empty id, and a post.
Routes ==
    {NoRoute, HandledRoute(<<>>), HandledRoute([slug |-> "a"]),
     HandledRoute([id |-> ""]), HandledRoute([id |-> "p1"])}

Doms == {<<"dom1">>, <<"dom2">>}

\* route.data?.['id']; an undefined id is the empty string here, which is
\* falsy as undefined is.
postId(route) == IF Has(route.data, "id") THEN route.data.id ELSE ""

\* A plugin without the check of the post id.
PostIdUnchecked(id) == TRUE

\* if (!postId)
HasPostId(id) == id # ""

\* What blocks.children.list resolves with: nothing, no blocks, blocks.
NoResponse == [present |-> FALSE]

ListResponses ==
    {NoResponse, [present |-> TRUE, results |-> <<>>],
     [present |-> TRUE, results |-> <<"b1">>]}

\* !blocks || !blocks.results.length
NoBlocks(response) == ~response.present \/ Len(response.results) = 0

\* What injectHtml resolves with: the dom with the parsed blocks in it.
injectHtml(dom, html) == dom \o html

\* The configs of the router: with and without notionApiKey.
RouterConfigs == {[databaseId |-> "db"],
                  [databaseId |-> "db", notionApiKey |-> "key"]}

\* What databases.query resolves with: the ids of the posts.
QueryResults == {<<>>, <<"p1", "p2">>}

InitPlugin ==
    /\ notion \in BOOLEAN
    /\ apiCalls = <<>>
    /\ routerCall = [pc |-> "idle", n |-> 0]
    /\ domCall = [pc |-> "idle"]
    /\ domResult = <<>>
    /\ blocks = Unused /\ parserOptions = Unused /\ stack = Unused
    /\ calls = Unused /\ outstanding = Unused /\ answers = Unused
    /\ status = Unused /\ result = Unused /\ error = Unused
    /\ annotations = Unused /\ content = Unused /\ annotated = Unused
    /\ instance = Unused /\ created = Unused /\ requests = Unused
    /\ returned = Unused /\ parseOptions = Unused

\* notionDomRouterPlugin up to its await: without a client and without a key
\* it rejects; otherwise the client exists and databases.query is called.
RouterCall ==
    /\ routerCall.pc # "await"
    /\ routerCall.n < MaxRouterCalls
    /\ \E config \in RouterConfigs :
        IF ~notion /\ ~Has(config, "notionApiKey")
        THEN /\ routerCall' = [pc |-> "rejected", n |-> routerCall.n + 1,
                               error |-> "Notion Client has not been instantiated"]
             /\ UNCHANGED <<notion, apiCalls>>
        ELSE /\ notion' = TRUE
             /\ apiCalls' = Append(apiCalls,
                   [api |-> "databases.query", id |-> config.databaseId, by |-> 0])
             /\ routerCall' = [pc |-> "await", n |-> routerCall.n + 1]
    /\ UNCHANGED <<domCall, domResult>>
    /\ UNCHANGED notPluginVars

\* databases.query resolves: one handled route per post, its data.id the
\* post's id.
QueryResolves ==
    /\ routerCall.pc = "await"
    /\ \E posts \in QueryResults :
        routerCall' = [pc |-> "resolved", n |-> routerCall.n,
                       routes |-> [k \in 1..Len(posts) |->
                                      HandledRoute([id |-> posts[k]])]]
    /\ UNCHANGED <<notion, apiCalls, domCall, domResult>>
    /\ UNCHANGED notPluginVars

\* databases.query throws or rejects: the catch rethrows.
QueryRejects ==
    /\ routerCall.pc = "await"
    /\ routerCall' = [pc |-> "rejected", n |-> routerCall.n,
                      error |-> "Something went wrong"]
    /\ UNCHANGED <<notion, apiCalls, domCall, domResult>>
    /\ UNCHANGED notPluginVars

\* The promise of the invocation in progress settles.
Settled(call, outcome, value, fetch) ==
    Append(domResult, [dom |-> call.dom, route |-> call.route,
                       client |-> call.client, outcome |-> outcome,
                       value |-> value, fetch |-> fetch])

\* notionDomPlugin(dom, route) up to its await: the three skips resolve with
\* dom; otherwise blocks.children.list is called.
DomPluginCall ==
    /\ domCall.pc = "idle"
    /\ Len(domResult) < MaxDomCalls
    /\ \E dom \in Doms, route \in Routes :
        LET call == [pc |-> "await", dom |-> dom, route |-> route,
                     client |-> notion]
        IN  IF ~route.present \/ ~notion \/ ~HasPostId(postId(route))
            THEN /\ domResult' = Settled(call, "resolved", dom, "skipped")
                 /\ UNCHANGED <<apiCalls, domCall>>
            ELSE /\ apiCalls' = Append(apiCalls,
                       [api |-> "blocks.children.list", id |-> postId(route),
                        by |-> Len(domResult) + 1])
                 /\ domCall' = call
                 /\ UNCHANGED domResult
    /\ UNCHANGED <<notion, routerCall>>
    /\ UNCHANGED notPluginVars

\* blocks.children.list resolves.  Without blocks the plugin resolves with
\* dom; a throw of getPluginConfig, getInstance, parse or injectHtml is
\* caught and resolves with dom; otherwise the promise of injectHtml is
\* returned without an await.
ListResolves ==
    /\ domCall.pc = "await"
    /\ \E response \in ListResponses, throws \in BOOLEAN :
        IF NoBlocks(response)
        THEN /\ domResult' = Settled(domCall, "resolved", domCall.dom,
                                     IF response.present THEN "empty" ELSE "nothing")
             /\ domCall' = [pc |-> "idle"]
        ELSE IF throws
        THEN /\ domResult' = Settled(domCall, "resolved", domCall.dom, "blocks")
             /\ domCall' = [pc |-> "idle"]
        ELSE /\ domCall' = [domCall EXCEPT !.pc = "inject"] @@
                           [html |-> response.results]
             /\ UNCHANGED domResult
    /\ UNCHANGED <<notion, apiCalls, routerCall>>
    /\ UNCHANGED notPluginVars

\* blocks.children.list throws or rejects: the catch resolves with dom.
ListRejects ==
    /\ domCall.pc = "await"
    /\ domResult' = Settled(domCall, "resolved", domCall.dom, "threw")
    /\ domCall' = [pc |-> "idle"]
    /\ UNCHANGED <<notion, apiCalls, routerCall>>
    /\ UNCHANGED notPluginVars

\* The promise of injectHtml resolves, and the plugin's with it.
InjectResolves ==
    /\ domCall.pc = "inject"
    /\ domResult' = Settled(domCall, "resolved",
                            injectHtml(domCall.dom, domCall.html), "blocks")
    /\ domCall' = [pc |-> "idle"]
    /\ UNCHANGED <<notion, apiCalls, routerCall>>
    /\ UNCHANGED notPluginVars

\* The promise of injectHtml rejects: it was returned, not awaited, so the
\* catch does not see it and the plugin's promise rejects.
InjectRejects ==
    /\ domCall.pc = "inject"
    /\ domResult' = Settled(domCall, "rejected", <<>>, "blocks")
    /\ domCall' = [pc |-> "idle"]
    /\ UNCHANGED <<notion, apiCalls, routerCall>>
    /\ UNCHANGED notPluginVars

PluginNext ==
    \/ RouterCall
    \/ QueryResolves
    \/ QueryRejects
    \/ DomPluginCall
    \/ ListResolves
    \/ ListRejects
    \/ InjectResolves
    \/ InjectRejects

SpecPlugin == InitPlugin /\ [][PluginNext]_vars

\* The Notion API calls the k-th notionDomPlugin invocation made.
ApiCallsBy(k) == {c \in 1..Len(apiCalls) : apiCalls[c].by = k}

\* The k-th invocation was skipped: no route, no client or no post id.
Skipped(k) ==
    \/ ~domResult[k].route.present
    \/ ~domResult[k].client
    \/ postId(domResult[k].route) = ""

\* C10: when the route is missing, the client is not instantiated, the route
\* has no post id, the fetched block list is missing or empty, or the fetch
\* throws, notionDomPlugin resolves with the dom it was given; in the first
\* three cases no Notion API call is made for it.
C10_ResolvesWithDom ==
    /\ \A k \in 1..Len(domResult) :
          /\ Skipped(k) \/ domResult[k].fetch \in {"nothing", "empty", "threw"}
                => /\ domResult[k].outcome = "resolved"
                   /\ domResult[k].value = domResult[k].dom
          /\ Skipped(k) => ApiCallsBy(k) = {}
          /\ ~Skipped(k) => Cardinality(ApiCallsBy(k)) = 1
    /\ domCall.pc # "idle" =>
          /\ domCall.route.present /\ domCall.client
          /\ postId(domCall.route) # ""

\* Invocations of each of the five kinds have settled: a skipped one after
\* the router made its own API call, and fetches that came back empty and
\* that threw.
C10_Witness ==
    /\ Len(domResult) = 2
    /\ Skipped(1) /\ domResult[1].client /\ domResult[1].route.present
    /\ domResult[2].fetch = "threw"
    /\ Len(apiCalls) >= 2

====
